---- MODULE Spec2Model ----
(***************************************************************************)
(* A state-machine model of the document-processing pipeline:              *)
(*   - services/ocr/ocr_engines.py        EnsembleOCREngine                *)
(*   - services/ingestion/*.py            IngestionService, MinIOStorage   *)
(*   - services/ocr/ocr_service.py        OCRService                       *)
(*   - services/inference/*.py            InferenceService                 *)
(*   - services/inference/main.py         the FastAPI endpoints            *)
(*   - services/monitoring/performance_monitor.py   PerformanceMonitor     *)
(*   - airflow/dags/document_processing_pipeline.py   the daily DAG        *)
(*                                                                         *)
(* Confidences are integers (hundredths), accuracies are integers          *)
(* (percent), time is counted in ticks of 1/TicksPerDay day.               *)
(***************************************************************************)
EXTENDS Integers, Sequences, FiniteSets, TLC

VARIABLES
    engines,          \* EnsembleOCREngine.engines: what each engine does on the image
    voting_strategy,  \* EnsembleOCREngine.voting_strategy
    request,          \* the (filename, file_size) handed to validate_file
    documents,        \* table documents.documents: id -> row
    objects,          \* the MinIO bucket: object name -> content
    uploads,          \* number of objects ever put into the bucket
    ocr_results,      \* table documents.ocr_results: document id -> latest text
    predictions,      \* table documents.predictions: document id -> number of rows
    model_metrics,    \* table models.model_metrics: set of rows
    now,              \* datetime.utcnow(), in ticks
    task_state,       \* the DAG run: task id -> task instance state
    try_number,       \* the DAG run: failed tries of the task that is up next
    xcom,             \* the DAG run: values pushed to XCom
    reader,           \* EasyOCREngine.reader: the languages it was created for ({}: None)
    initialized_languages,  \* EasyOCREngine._initialized_languages
    performance_metrics,    \* table monitoring.performance_metrics: status codes
    call              \* the most recent call: its name, arguments and result

vars == <<engines, voting_strategy, request, documents, objects, uploads,
          ocr_results, predictions, model_metrics, now, task_state, try_number,
          xcom, reader, initialized_languages, performance_metrics, call>>

ensembleVars == <<engines, voting_strategy>>
tableVars == <<documents, objects, uploads, ocr_results, predictions>>
metricVars == <<model_metrics, now>>
dagVars == <<task_state, try_number, xcom>>
readerVars == <<reader, initialized_languages>>
monitorVars == <<performance_metrics>>

NoCall == [op |-> "none"]

Min(a, b) == IF a < b THEN a ELSE b

(***************************************************************************)
(* Bounds of the model.                                                    *)
(***************************************************************************)
MaxEngines == 3     \* engines in an ensemble
MaxConf == 2        \* confidences are 0..MaxConf
MaxNameLen == 3     \* tokens in a file name
MaxDays == 9        \* the oldest model was trained MaxDays days ago
TicksPerDay == 2    \* clock resolution
MaxModels == 2      \* rows of model_metrics in the initial state

(***************************************************************************)
(* EnsembleOCREngine (ocr_engines.py)                                      *)
(***************************************************************************)
Texts == {"", "a", "b"}

\* What engine.extract_text(image, language) does: raise, or return a pair.
EngineOutcomes ==
    {[kind |-> "raise"]} \cup
    {[kind |-> "ok", text |-> t, confidence |-> c] : t \in Texts, c \in 0..MaxConf}

VotingStrategies == {"confidence", "majority"}

\* The loop of extract_text: the results of the engines that did not raise,
\* in the order of self.engines.
EngineResults(es) ==
    LET F[i \in 0..Len(es)] ==
          IF i = 0 THEN <<>>
          ELSE IF es[i].kind = "ok"
               THEN Append(F[i-1], [text |-> es[i].text,
                                    confidence |-> es[i].confidence,
                                    engine |-> i])
               ELSE F[i-1]
    IN F[Len(es)]

\* A comparison the wrong way round: the least confident result wins.
MaxByConfidenceReversed(results) ==
    LET F[i \in 1..Len(results)] ==
          IF i = 1 THEN results[1]
          ELSE IF results[i].confidence < F[i-1].confidence
               THEN results[i] ELSE F[i-1]
    IN F[Len(results)]

\* A comparison that lets a later result of equal confidence replace the
\* best so far: the last maximal result wins.
MaxByConfidenceLastWins(results) ==
    LET F[i \in 1..Len(results)] ==
          IF i = 1 THEN results[1]
          ELSE IF results[i].confidence >= F[i-1].confidence
               THEN results[i] ELSE F[i-1]
    IN F[Len(results)]

\* Python's max(results, key=lambda x: x[1]): a later element replaces the
\* best so far only when its key is strictly greater.
MaxByConfidence(results) ==
    LET F[i \in 1..Len(results)] ==
          IF i = 1 THEN results[1]
          ELSE IF results[i].confidence > F[i-1].confidence
               THEN results[i] ELSE F[i-1]
    IN F[Len(results)]

EnsembleExtractText(es, strategy) ==
    LET results == EngineResults(es) IN
    IF results = <<>> THEN [text |-> "", confidence |-> 0, engine |-> 0]
    ELSE IF strategy = "confidence" THEN MaxByConfidence(results)
    ELSE results[1]

ExtractText ==
    /\ call = NoCall
    /\ call' = [op |-> "extract_text",
                result |-> EnsembleExtractText(engines, voting_strategy)]
    /\ UNCHANGED <<ensembleVars, readerVars, monitorVars, request, tableVars, metricVars, dagVars>>

(***************************************************************************)
(* EasyOCREngine._get_reader (ocr_engines.py). A reader is the set of the  *)
(* language codes easyocr.Reader was created with; a language key, the     *)
(* tuple(sorted(languages)) of the code, is that set as well.              *)
(***************************************************************************)
NoReader == {}

\* The language argument: the three mapped codes and one that is not mapped.
Languages == {"eng", "rus", "eng+rus", "deu"}

\* lang_map.get(language, 'en'), as a list of codes
LangKey(language) ==
    IF language = "eng" THEN {"en"}
    ELSE IF language = "rus" THEN {"ru"}
    ELSE IF language = "eng+rus" THEN {"en", "ru"}
    ELSE {"en"}

\* _get_reader(language): create_ok is FALSE when easyocr.Reader raises (the
\* model files cannot be loaded), which leaves the engine as it was.
get_reader(rdr, initialized, language, create_ok) ==
    LET lang_key == LangKey(language) IN
    IF rdr = NoReader \/ lang_key \notin initialized
    THEN IF create_ok
         THEN [reader |-> lang_key, initialized_languages |-> initialized \cup {lang_key},
               created |-> TRUE, raised |-> FALSE, returned |-> lang_key]
         ELSE [reader |-> rdr, initialized_languages |-> initialized,
               created |-> FALSE, raised |-> TRUE, returned |-> NoReader]
    ELSE [reader |-> rdr, initialized_languages |-> initialized,
          created |-> FALSE, raised |-> FALSE, returned |-> rdr]

GetReader ==
    /\ \E language \in Languages, create_ok \in BOOLEAN :
          LET r == get_reader(reader, initialized_languages, language, create_ok) IN
          /\ reader' = r.reader
          /\ initialized_languages' = r.initialized_languages
          /\ call' = [op |-> "_get_reader", language |-> language,
                      created |-> r.created, raised |-> r.raised,
                      returned |-> r.returned]
    /\ UNCHANGED <<ensembleVars, monitorVars, request, tableVars, metricVars, dagVars>>

\* reader.readtext(image): it raises, finds nothing, or finds text with an
\* average confidence.
ReadTextOutcomes ==
    {[kind |-> "raise", confidence |-> 0], [kind |-> "empty", confidence |-> 0]}
        \cup {[kind |-> "text", confidence |-> c] : c \in 0..MaxConf}

\* EasyOCREngine.extract_text(image, language): every exception, that of
\* _get_reader included, becomes ("", 0.0).
EasyExtractText ==
    /\ \E language \in Languages, create_ok \in BOOLEAN, read \in ReadTextOutcomes :
          LET r == get_reader(reader, initialized_languages, language, create_ok)
              failed == r.raised \/ read.kind # "text"
          IN
          /\ reader' = r.reader
          /\ initialized_languages' = r.initialized_languages
          /\ call' = [op |-> "EasyOCREngine.extract_text", language |-> language,
                      used |-> r.returned,
                      text |-> IF failed THEN "" ELSE "text",
                      confidence |-> IF failed THEN 0 ELSE read.confidence]
    /\ UNCHANGED <<ensembleVars, monitorVars, request, tableVars, metricVars, dagVars>>

(***************************************************************************)
(* IngestionService.validate_file (ingestion_service.py)                   *)
(* A file name is a sequence of tokens; "." and "/" are the characters,    *)
(* every other token is a run of letters.                                  *)
(***************************************************************************)
NameTokens == {".", "/", "x", "pdf", "PDF", "exe", "Tif"}

Lower(tok) ==
    CASE tok = "PDF" -> "pdf"
      [] tok = "Tif" -> "tif"
      [] OTHER -> tok

LowerSeq(s) == [i \in 1..Len(s) |-> Lower(s[i])]

ALLOWED_EXTENSIONS ==
    {<<".", "jpg">>, <<".", "jpeg">>, <<".", "png">>, <<".", "tiff">>,
     <<".", "tif">>, <<".", "pdf">>, <<".", "bmp">>}

MAX_FILE_SIZE == 50 * 1024 * 1024

\* pathlib: the path's components, split at "/", without the empty ones and
\* without the "." ones.
PathParts(s) ==
    LET F[i \in 0..Len(s)] ==
          \* <<finished parts, current part>>
          IF i = 0 THEN <<<<>>, <<>>>>
          ELSE IF s[i] = "/"
               THEN <<IF F[i-1][2] \in {<<>>, <<".">>} THEN F[i-1][1]
                      ELSE Append(F[i-1][1], F[i-1][2]), <<>>>>
               ELSE <<F[i-1][1], Append(F[i-1][2], s[i])>>
        last == F[Len(s)]
    IN IF last[2] \in {<<>>, <<".">>} THEN last[1] ELSE Append(last[1], last[2])

\* PurePath.name: the final component, '' when there is none.
PathName(s) ==
    LET parts == PathParts(s) IN
    IF parts = <<>> THEN <<>> ELSE parts[Len(parts)]

\* PurePath.suffix: name[i:] for i = name.rfind('.') when 0 < i < len(name)-1
\* (0-based), '' otherwise.
PathSuffix(s) ==
    LET name == PathName(s)
        dots == {i \in 1..Len(name) : name[i] = "."}
    IN IF dots = {} THEN <<>>
       ELSE LET i == CHOOSE k \in dots : \A j \in dots : j <= k IN
            IF 1 < i /\ i < Len(name) THEN SubSeq(name, i, Len(name)) ELSE <<>>

\* A size check that rejects a file of exactly MAX_FILE_SIZE bytes.
validate_file_strict(filename, file_size) ==
    IF LowerSeq(PathSuffix(filename)) \notin ALLOWED_EXTENSIONS
    THEN [valid |-> FALSE, error |-> "extension"]
    ELSE IF file_size >= MAX_FILE_SIZE
    THEN [valid |-> FALSE, error |-> "size"]
    ELSE [valid |-> TRUE, error |-> "None"]

validate_file(filename, file_size) ==
    IF LowerSeq(PathSuffix(filename)) \notin ALLOWED_EXTENSIONS
    THEN [valid |-> FALSE, error |-> "extension"]
    ELSE IF file_size > MAX_FILE_SIZE
    THEN [valid |-> FALSE, error |-> "size"]
    ELSE [valid |-> TRUE, error |-> "None"]

ValidateFile ==
    /\ call = NoCall
    /\ call' = [op |-> "validate_file",
                result |-> validate_file(request.filename, request.file_size)]
    /\ UNCHANGED <<ensembleVars, readerVars, monitorVars, request, tableVars, metricVars, dagVars>>

RECURSIVE SeqsUpTo(_, _)
SeqsUpTo(S, n) ==
    IF n = 0 THEN {<<>>}
    ELSE LET shorter == SeqsUpTo(S, n - 1) IN
         shorter \cup {Append(s, x) : s \in {t \in shorter : Len(t) = n - 1}, x \in S}

FileNames == SeqsUpTo(NameTokens, MaxNameLen)
FileSizes == {0, MAX_FILE_SIZE - 1, MAX_FILE_SIZE, MAX_FILE_SIZE + 1}

(***************************************************************************)
(* The tables and the bucket.                                              *)
(*   documents    a sequence: the row of document id i is documents[i]     *)
(*                (ids are assigned in order, rows are never deleted)      *)
(*   objects      object name -> [loadable]: whether PIL can open the data *)
(*   ocr_results  document id -> the text of its latest row, "none" when   *)
(*                it has no row ("" and "text": empty and non-empty text)  *)
(*   predictions  document id -> number of rows, counted up to             *)
(*                MaxPredictions                                           *)
(***************************************************************************)
MaxDocs == 2          \* document ids the OCR and prediction tables cover
MaxUploads == 3       \* objects ever put into the bucket
MaxPredictions == 2   \* prediction rows counted per document
MaxServiceDocs == 1    \* documents in the table when a service method is called
MaxPipelineDocs == 1   \* documents in the table the pipeline runs over
MaxBatchDocs == 2      \* documents in the table a batch runs over
MaxBatchLen == 2       \* document ids handed to batch_process_documents

DocIds == 1..MaxDocs

HasDocument(docs, d) == d \in 1..Len(docs)

(***************************************************************************)
(* MinIOStorage (storage.py)                                               *)
(***************************************************************************)
\* upload_file: put_object, False on S3Error.
upload_file(objs, object_name, content, put_ok) ==
    IF put_ok
    THEN [objects |-> [n \in DOMAIN objs \cup {object_name} |->
                          IF n = object_name THEN content ELSE objs[n]],
          ok |-> TRUE]
    ELSE [objects |-> objs, ok |-> FALSE]

\* delete_file: remove_object, False on S3Error.
delete_file(objs, object_name, remove_ok) ==
    IF remove_ok
    THEN [objects |-> [n \in DOMAIN objs \ {object_name} |-> objs[n]], ok |-> TRUE]
    ELSE [objects |-> objs, ok |-> FALSE]

(***************************************************************************)
(* IngestionService.ingest_document (ingestion_service.py)                 *)
(***************************************************************************)
SaveOutcomes == {"ok", "commit_raises", "refresh_raises"}

\* _save_to_database: add, commit, refresh. An exception before the commit
\* leaves no row; one after it (refresh) leaves the committed row.
save_to_database(docs, storage_path, save) ==
    IF save = "commit_raises"
    THEN [documents |-> docs, raised |-> TRUE]
    ELSE [documents |-> Append(docs, [status |-> "uploaded",
                                       storage_path |-> storage_path]),
          raised |-> (save = "refresh_raises")]

\* An ingest_document that uploads before it validates.
ingest_document_upload_first(docs, objs, storage_path, filename, file_size, pil_opens, env) ==
    LET validation == validate_file(filename, file_size)
        up == upload_file(objs, storage_path, [loadable |-> pil_opens], TRUE)
    IN [documents |-> docs, objects |-> up.objects,
        result |-> [success |-> validation.valid, error |-> validation.error],
        uploaded |-> TRUE, saved |-> "none", deleted |-> "none",
        storage_path |-> storage_path]

\* env: put_ok (upload_file), save (a SaveOutcome), remove_ok (delete_file);
\* storage_path is the fresh object name of this ingest.
ingest_document(docs, objs, storage_path, filename, file_size, pil_opens, env) ==
    LET validation == validate_file(filename, file_size) IN
    IF ~validation.valid
    THEN [documents |-> docs, objects |-> objs,
          result |-> [success |-> FALSE, error |-> validation.error],
          uploaded |-> FALSE, saved |-> "none", deleted |-> "none",
          storage_path |-> storage_path]
    ELSE
    LET up == upload_file(objs, storage_path, [loadable |-> pil_opens], env.put_ok) IN
    IF ~up.ok
    THEN [documents |-> docs, objects |-> up.objects,
          result |-> [success |-> FALSE, error |-> "storage"],
          uploaded |-> FALSE, saved |-> "none", deleted |-> "none",
          storage_path |-> storage_path]
    ELSE
    LET db == save_to_database(docs, storage_path, env.save) IN
    IF ~db.raised
    THEN [documents |-> db.documents, objects |-> up.objects,
          result |-> [success |-> TRUE, error |-> "None",
                      document_id |-> Len(db.documents)],
          uploaded |-> TRUE, saved |-> env.save, deleted |-> "none",
          storage_path |-> storage_path]
    ELSE
    LET del == delete_file(up.objects, storage_path, env.remove_ok) IN
         [documents |-> db.documents, objects |-> del.objects,
          result |-> [success |-> FALSE, error |-> "database"],
          uploaded |-> TRUE, saved |-> env.save,
          deleted |-> IF del.ok THEN "ok" ELSE "failed",
          storage_path |-> storage_path]

IngestEnvs ==
    {e \in [put_ok : BOOLEAN, save : SaveOutcomes, remove_ok : BOOLEAN] :
       /\ ~e.put_ok => e.save = "ok"
       /\ e.save = "ok" => e.remove_ok}

\* The files uploaded: a PDF (PIL cannot open it), an image, a damaged image,
\* a file of a type that is not allowed, a file that is too big.
IngestFiles ==
    {[filename |-> <<"x", ".", "pdf">>, file_size |-> MAX_FILE_SIZE, pil_opens |-> FALSE],
     [filename |-> <<"x", ".", "Tif">>, file_size |-> 1, pil_opens |-> TRUE],
     [filename |-> <<"x", ".", "Tif">>, file_size |-> 1, pil_opens |-> FALSE],
     [filename |-> <<"x", ".", "exe">>, file_size |-> 1, pil_opens |-> FALSE],
     [filename |-> <<"x", ".", "pdf">>, file_size |-> MAX_FILE_SIZE + 1,
      pil_opens |-> FALSE]}

(***************************************************************************)
(* OCRService (ocr_service.py)                                             *)
(***************************************************************************)
\* load_image_from_storage: TRUE when an image comes back, FALSE for None
\* (the download fails or the object is missing, or PIL cannot open it).
load_image_from_storage(objs, storage_path, download_ok) ==
    /\ download_ok
    /\ storage_path \in DOMAIN objs
    /\ objs[storage_path].loadable

\* _save_ocr_result: the row is added, or the exception is logged.
save_ocr_result(ocr, d, text, save_ok) ==
    IF save_ok THEN [ocr EXCEPT ![d] = text] ELSE ocr

\* _update_document_status: the UPDATE is committed, or the exception is logged.
update_document_status(docs, d, status, update_ok) ==
    IF update_ok /\ HasDocument(docs, d)
    THEN [docs EXCEPT ![d].status = status]
    ELSE docs

\* env: query_ok (the SELECT of the document), download_ok, engine ("raise",
\* or the text extract_text returns: "" or "text"), save_ok, update_ok.
\* A choice that is never consulted is left at its default.
ProcEnvs ==
    {e \in [query_ok : BOOLEAN, download_ok : BOOLEAN,
            engine : {"raise", "", "text"}, save_ok : BOOLEAN, update_ok : BOOLEAN] :
       /\ ~e.query_ok => e.download_ok
       /\ ~(e.query_ok /\ e.download_ok) =>
              e.engine = "text" /\ e.save_ok /\ e.update_ok
       /\ e.engine = "raise" => e.save_ok}

\* process_document(document_id): raised is TRUE when the call ends in an
\* exception (the SELECT of the document is outside every try).
process_document(docs, objs, ocr, d, env) ==
    LET same == [documents |-> docs, ocr_results |-> ocr] IN
    IF ~env.query_ok
    THEN same @@ [raised |-> TRUE, loaded |-> FALSE, engine_raised |-> FALSE,
                  status_set |-> "none", result |-> [success |-> FALSE]]
    ELSE IF ~HasDocument(docs, d)
    THEN same @@ [raised |-> FALSE, loaded |-> FALSE, engine_raised |-> FALSE,
                  status_set |-> "none",
                  result |-> [success |-> FALSE, error |-> "Document not found"]]
    ELSE IF ~load_image_from_storage(objs, docs[d].storage_path, env.download_ok)
    THEN same @@ [raised |-> FALSE, loaded |-> FALSE, engine_raised |-> FALSE,
                  status_set |-> "none",
                  result |-> [success |-> FALSE, error |-> "Failed to load image"]]
    ELSE IF env.engine = "raise"
    THEN [documents |-> update_document_status(docs, d, "ocr_failed", env.update_ok),
          ocr_results |-> ocr,
          raised |-> FALSE, loaded |-> TRUE, engine_raised |-> TRUE,
          status_set |-> IF env.update_ok THEN "ocr_failed" ELSE "none",
          result |-> [success |-> FALSE, error |-> "exception"]]
    ELSE [documents |-> update_document_status(docs, d, "ocr_completed", env.update_ok),
          ocr_results |-> save_ocr_result(ocr, d, env.engine, env.save_ok),
          raised |-> FALSE, loaded |-> TRUE, engine_raised |-> FALSE,
          status_set |-> IF env.update_ok THEN "ocr_completed" ELSE "none",
          result |-> [success |-> TRUE, document_id |-> d,
                      extracted_text |-> env.engine]]

\* get_ocr_results: the latest row's text, "none" for None (no row, or the
\* query raised and the exception was logged).
get_ocr_results(ocr, d, lookup_ok) ==
    IF lookup_ok THEN ocr[d] ELSE "none"

(***************************************************************************)
(* InferenceService (inference_service.py)                                 *)
(***************************************************************************)
\* predict_from_text: success needs a loaded model and no exception.
predict_from_text(model_loaded, predict_ok) ==
    IF ~model_loaded THEN [success |-> FALSE, error |-> "Model not loaded"]
    ELSE IF ~predict_ok THEN [success |-> FALSE, error |-> "exception"]
    ELSE [success |-> TRUE, error |-> "None"]

\* _save_prediction: the row is added, or the exception is logged.
save_prediction(preds, d, save_ok) ==
    IF save_ok THEN [preds EXCEPT ![d] = Min(@ + 1, MaxPredictions)] ELSE preds

\* env: lookup_ok (get_ocr_results), proc (a ProcEnv), model_loaded,
\* predict_ok, save_ok (_save_prediction).
PredEnvs ==
    {e \in [lookup_ok : BOOLEAN, proc : ProcEnvs, model_loaded : BOOLEAN,
            predict_ok : BOOLEAN, save_ok : BOOLEAN] :
       ~(e.model_loaded /\ e.predict_ok) => e.save_ok}

\* A predict_from_document that goes on to predict after a failed OCR run.
predict_from_document_ignores_ocr_failure(docs, objs, ocr, preds, d, env) ==
    LET stored == get_ocr_results(ocr, d, env.lookup_ok)
        ran_ocr == stored = "none"
        p == IF ran_ocr THEN process_document(docs, objs, ocr, d, env.proc)
             ELSE [documents |-> docs, ocr_results |-> ocr, raised |-> FALSE,
                   loaded |-> FALSE, engine_raised |-> FALSE, status_set |-> "none",
                   result |-> [success |-> TRUE, extracted_text |-> stored]]
        prediction == predict_from_text(env.model_loaded, env.predict_ok)
    IN [documents |-> p.documents, ocr_results |-> p.ocr_results,
        predictions |-> IF prediction.success
                        THEN save_prediction(preds, d, env.save_ok) ELSE preds,
        lookup_ok |-> env.lookup_ok, ran_ocr |-> ran_ocr,
        ocr_outcome |-> IF ~ran_ocr THEN "not_run"
                        ELSE IF p.raised THEN "raised"
                        ELSE IF p.result.success THEN "success" ELSE "failed",
        text |-> IF p.result.success THEN p.result.extracted_text ELSE "",
        raised |-> FALSE, predicted |-> TRUE,
        result |-> IF ran_ocr /\ ~p.result.success
                   THEN [success |-> FALSE, error |-> "OCR processing failed"]
                   ELSE prediction]

\* predict_from_document(document_id). The result also tells what the call
\* did: lookup_ok (get_ocr_results did not raise), ran_ocr and ocr_outcome
\* (the call of process_document), text (the text it went on with),
\* predicted (it called predict_from_text), raised (it ended in an exception).
predict_from_document(docs, objs, ocr, preds, d, env) ==
    LET stored == get_ocr_results(ocr, d, env.lookup_ok)
        ran_ocr == stored = "none"
        p == IF ran_ocr THEN process_document(docs, objs, ocr, d, env.proc)
             ELSE [documents |-> docs, ocr_results |-> ocr, raised |-> FALSE,
                   loaded |-> FALSE, engine_raised |-> FALSE, status_set |-> "none",
                   result |-> [success |-> TRUE, extracted_text |-> stored]]
        after == [documents |-> p.documents, ocr_results |-> p.ocr_results,
                  lookup_ok |-> env.lookup_ok, ran_ocr |-> ran_ocr,
                  ocr_outcome |-> IF ~ran_ocr THEN "not_run"
                                  ELSE IF p.raised THEN "raised"
                                  ELSE IF p.result.success THEN "success"
                                  ELSE "failed",
                  text |-> IF p.result.success THEN p.result.extracted_text ELSE ""]
    IN
    IF p.raised
    THEN after @@ [predictions |-> preds, raised |-> TRUE, predicted |-> FALSE,
                   result |-> [success |-> FALSE]]
    ELSE IF ~p.result.success
    THEN after @@ [predictions |-> preds, raised |-> FALSE, predicted |-> FALSE,
                   result |-> [success |-> FALSE, error |-> "OCR processing failed"]]
    ELSE IF p.result.extracted_text = ""
    THEN after @@ [predictions |-> preds, raised |-> FALSE, predicted |-> FALSE,
                   result |-> [success |-> FALSE,
                               error |-> "No text extracted from document"]]
    ELSE
    LET prediction == predict_from_text(env.model_loaded, env.predict_ok) IN
         after @@ [predictions |-> IF prediction.success
                                   THEN save_prediction(preds, d, env.save_ok)
                                   ELSE preds,
                   raised |-> FALSE, predicted |-> TRUE,
                   result |-> prediction]

(***************************************************************************)
(* The services called one request at a time (the REST endpoints and the   *)
(* public methods).                                                        *)
(***************************************************************************)
IngestDocument ==
    /\ uploads < MaxUploads
    /\ \E file \in IngestFiles :
         LET outcomes == {ingest_document(documents, objects, uploads + 1,
                                          file.filename, file.file_size,
                                          file.pil_opens, env) : env \in IngestEnvs}
         IN \E r \in outcomes :
              /\ documents' = r.documents
              /\ objects' = r.objects
              /\ uploads' = IF r.uploaded THEN uploads + 1 ELSE uploads
              /\ call' = [op |-> "ingest_document",
                          validation |-> validate_file(file.filename, file.file_size),
                          storage_path |-> r.storage_path, uploaded |-> r.uploaded,
                          saved |-> r.saved, deleted |-> r.deleted,
                          rows_before |-> Len(documents), result |-> r.result]
    /\ UNCHANGED <<ensembleVars, readerVars, monitorVars, request, ocr_results, predictions, metricVars,
                   dagVars>>

ProcessDocument ==
    /\ call = NoCall
    /\ \E d \in 1..(MaxServiceDocs + 1) :
         LET outcomes == {process_document(documents, objects, ocr_results, d, env) :
                            env \in ProcEnvs}
         IN \E r \in outcomes :
              /\ documents' = r.documents
              /\ ocr_results' = r.ocr_results
              /\ call' = [op |-> "process_document", document_id |-> d,
                          existed |-> HasDocument(documents, d),
                          status_before |-> IF HasDocument(documents, d)
                                            THEN documents[d].status ELSE "None",
                          loaded |-> r.loaded, engine_raised |-> r.engine_raised,
                          status_set |-> r.status_set,
                          raised |-> r.raised, result |-> r.result]
    /\ UNCHANGED <<ensembleVars, readerVars, monitorVars, request, objects, uploads, predictions,
                   metricVars, dagVars>>

PredictFromDocument ==
    /\ call = NoCall
    /\ \E d \in 1..MaxServiceDocs :
         LET outcomes == {predict_from_document(documents, objects, ocr_results,
                                                predictions, d, env) : env \in PredEnvs}
         IN \E r \in outcomes :
              /\ documents' = r.documents
              /\ ocr_results' = r.ocr_results
              /\ predictions' = r.predictions
              /\ call' = [op |-> "predict_from_document", document_id |-> d,
                          stored |-> ocr_results[d], rows_before |-> predictions[d],
                          lookup_ok |-> r.lookup_ok, ran_ocr |-> r.ran_ocr,
                          ocr_outcome |-> r.ocr_outcome, text |-> r.text,
                          predicted |-> r.predicted, raised |-> r.raised,
                          result |-> r.result]
    /\ UNCHANGED <<ensembleVars, readerVars, monitorVars, request, objects, uploads, metricVars, dagVars>>

(***************************************************************************)
(* The FastAPI endpoints POST /upload and POST /predict/document/{id}      *)
(* (inference/main.py). Both have the same frame: the service call and the *)
(* check of its result inside try, HTTPException re-raised, every other    *)
(* exception turned into a 500.                                            *)
(***************************************************************************)
\* A frame without the 'except HTTPException: raise' clause.
endpoint_status_catch_all(service_raised, success, error_status) ==
    IF service_raised \/ ~success THEN 500 ELSE 200

\* The status code of the response: in_try is what the try block ends with.
endpoint_status(service_raised, success, error_status) ==
    LET in_try ==
           IF service_raised THEN [exc |-> "Exception", status_code |-> 0]
           ELSE IF ~success
           THEN [exc |-> "HTTPException", status_code |-> error_status]
           ELSE [exc |-> "none", status_code |-> 0]
    IN IF in_try.exc = "HTTPException" THEN in_try.status_code
       ELSE IF in_try.exc = "Exception" THEN 500
       ELSE 200

\* upload_document: ingest_document raises when the uploaded file cannot be
\* read (file_data.seek / read come before every try).
UploadDocument ==
    /\ call = NoCall
    /\ uploads < MaxUploads
    /\ \E file \in IngestFiles, read_ok \in BOOLEAN :
         LET outcomes == {ingest_document(documents, objects, uploads + 1,
                                          file.filename, file.file_size,
                                          file.pil_opens, env) : env \in IngestEnvs}
         IN \E r \in outcomes :
              /\ documents' = IF read_ok THEN r.documents ELSE documents
              /\ objects' = IF read_ok THEN r.objects ELSE objects
              /\ uploads' = IF read_ok /\ r.uploaded THEN uploads + 1 ELSE uploads
              /\ call' = [op |-> "POST /upload", service_raised |-> ~read_ok,
                          result |-> IF read_ok THEN r.result
                                     ELSE [success |-> FALSE, error |-> "exception"],
                          status_code |->
                             endpoint_status(~read_ok, r.result.success, 400)]
    /\ UNCHANGED <<ensembleVars, readerVars, monitorVars, request, ocr_results,
                   predictions, metricVars, dagVars>>

\* predict_from_document of main.py, over InferenceService.predict_from_document.
PredictDocument ==
    /\ call = NoCall
    /\ \E d \in 1..(MaxServiceDocs + 1) :
         LET outcomes == {predict_from_document(documents, objects, ocr_results,
                                                predictions, d, env) : env \in PredEnvs}
         IN \E r \in outcomes :
              /\ documents' = r.documents
              /\ ocr_results' = r.ocr_results
              /\ predictions' = r.predictions
              /\ call' = [op |-> "POST /predict/document", document_id |-> d,
                          service_raised |-> r.raised, result |-> r.result,
                          status_code |->
                             endpoint_status(r.raised, r.result.success, 404)]
    /\ UNCHANGED <<ensembleVars, readerVars, monitorVars, request, objects, uploads,
                   metricVars, dagVars>>

(***************************************************************************)
(* PerformanceMonitor.measure_and_log (performance_monitor.py)             *)
(* What the wrapped function does is an outcome: it raises, returns a      *)
(* value that is no dict, or returns a dict with or without a 'success'    *)
(* key. Python values are written as strings.                              *)
(***************************************************************************)
MaxCalls == 3   \* rows of performance_metrics

SuccessValues == {"absent", "True", "False", "None", "0"}

FuncOutcomes ==
    {[kind |-> "raise"], [kind |-> "value"]} \cup
    {[kind |-> "dict", success |-> v] : v \in SuccessValues}

\* result.get('success', True)
GetSuccess(result) == IF result.success = "absent" THEN "True" ELSE result.success

\* not x, for the values above
Falsy(x) == x \in {"False", "None", "0"}

\* _save_metric: add and commit the row; an exception is logged, not raised.
save_metric(rows, status_code, save_ok) ==
    IF save_ok THEN Append(rows, status_code) ELSE rows

\* A wrapper whose failed save of the metric is not caught by _save_metric:
\* it reaches the except branch of the wrapper.
measure_and_log_save_raises(rows, outcome, save_ok) ==
    IF outcome.kind = "raise" \/ ~save_ok
    THEN [performance_metrics |-> save_metric(rows, 500, save_ok),
          attempts |-> IF outcome.kind = "raise" THEN <<500>> ELSE <<200, 500>>,
          raised |-> TRUE, result |-> [kind |-> "raise"]]
    ELSE [performance_metrics |-> save_metric(rows, 200, save_ok),
          attempts |-> <<200>>, raised |-> FALSE, result |-> outcome]

\* The wrapper of measure_and_log, called once: attempts are the status codes
\* handed to _save_metric, result is what leaves the wrapper (returned, or
\* raised when raised is TRUE).
measure_and_log(rows, outcome, save_ok) ==
    IF outcome.kind = "raise"
    THEN [performance_metrics |-> save_metric(rows, 500, save_ok),
          attempts |-> <<500>>, raised |-> TRUE, result |-> outcome]
    ELSE LET status_code ==
                IF outcome.kind = "dict" /\ Falsy(GetSuccess(outcome))
                THEN 400 ELSE 200
         IN [performance_metrics |-> save_metric(rows, status_code, save_ok),
             attempts |-> <<status_code>>, raised |-> FALSE, result |-> outcome]

MeasureAndLog ==
    /\ Len(performance_metrics) < MaxCalls
    /\ \E outcome \in FuncOutcomes, save_ok \in BOOLEAN :
          LET r == measure_and_log(performance_metrics, outcome, save_ok) IN
          /\ performance_metrics' = r.performance_metrics
          /\ call' = [op |-> "measure_and_log", func |-> outcome,
                      save_ok |-> save_ok, rows_before |-> performance_metrics,
                      attempts |-> r.attempts, raised |-> r.raised,
                      result |-> r.result]
    /\ UNCHANGED <<ensembleVars, readerVars, request, tableVars, metricVars, dagVars>>

(***************************************************************************)
(* The DAG document_processing_pipeline (document_processing_pipeline.py). *)
(* A task instance is "none" until it runs, "up_for_retry" after a failed  *)
(* try that leaves retries, then "success" or "failed"; a task below a     *)
(* failed one becomes "upstream_failed" (trigger rule all_success). One    *)
(* step of the model is one try of a task.                                 *)
(***************************************************************************)
TaskIds == {"check_new_documents", "process_ocr_batch", "check_training_needed",
            "train_model", "deploy_model", "run_predictions", "collect_metrics",
            "cleanup_old_data"}

\* A task order that lost its first edge.
DependenciesWithoutFirstEdge ==
    {<<"process_ocr_batch", "check_training_needed">>,
     <<"check_training_needed", "train_model">>,
     <<"train_model", "deploy_model">>,
     <<"deploy_model", "run_predictions">>,
     <<"check_training_needed", "run_predictions">>,
     <<"run_predictions", "collect_metrics">>,
     <<"collect_metrics", "cleanup_old_data">>}

\* The edges a >> b of the DAG.
Dependencies ==
    {<<"check_new_documents", "process_ocr_batch">>,
     <<"process_ocr_batch", "check_training_needed">>,
     <<"check_training_needed", "train_model">>,
     <<"train_model", "deploy_model">>,
     <<"deploy_model", "run_predictions">>,
     <<"check_training_needed", "run_predictions">>,
     <<"run_predictions", "collect_metrics">>,
     <<"collect_metrics", "cleanup_old_data">>}

Upstream(t) == {e[1] : e \in {x \in Dependencies : x[2] = t}}

Retries == 2
BatchLimit == 100
MinTrainingSamples == 100
RetrainAfterDays == 7
AccuracyThreshold == 85

NoXCom == [new_documents_count |-> -1, ocr_processed |-> -1,
           check_training_return |-> "unset", needs_retraining |-> "unset",
           model_accuracy |-> -1, predictions_made |-> -1]

Runnable(t) ==
    /\ task_state[t] \in {"none", "up_for_retry"}
    /\ \A u \in Upstream(t) : task_state[u] = "success"

TaskSucceeds(t) ==
    /\ task_state' = [task_state EXCEPT ![t] = "success"]
    /\ try_number' = 0

\* The callable raised: the try is over, with a retry left or not.
TaskRaises(t) ==
    IF try_number < Retries
    THEN task_state' = [task_state EXCEPT ![t] = "up_for_retry"]
         /\ try_number' = try_number + 1
    ELSE task_state' = [task_state EXCEPT ![t] = "failed"]
         /\ try_number' = 0

BoolStr(b) == IF b THEN "True" ELSE "False"

WithStatus(docs, status) == {i \in 1..Len(docs) : docs[i].status = status}

\* query.filter(status == ...).limit(100).all(): every matching row when there
\* are at most 100, else some 100 of them; listed here by ascending id.
Ascending(S) ==
    IF S = {} THEN <<>>
    ELSE LET last == CHOOSE x \in S : \A y \in S : y <= x
             Selected(i) == i \in S
         IN SelectSeq([i \in 1..last |-> i], Selected)

\* The subsets of S that lack k of its elements.
RECURSIVE Without(_, _)
Without(S, k) ==
    IF k = 0 THEN {S} ELSE UNION {Without(S \ {x}, k - 1) : x \in S}

\* A query without its limit.
SelectBatchesUnlimited(docs, status) == {Ascending(WithStatus(docs, status))}

SelectBatches(docs, status) ==
    LET rows == WithStatus(docs, status)
        n == Cardinality(rows)
    IN {Ascending(T) : T \in Without(rows, n - Min(BatchLimit, n))}

\* One round of the loop of batch_process_documents: the tables after
\* process_document(doc_id) and the entry appended to results; an exception
\* of process_document becomes a success False entry.
batch_round(docs, objs, ocr, doc_id) ==
    {[documents |-> f.documents, ocr_results |-> f.ocr_results,
      results |-> <<[success |-> (~f.raised /\ f.result.success),
                     document_id |-> doc_id]>>] :
       f \in {process_document(docs, objs, ocr, doc_id, env) : env \in ProcEnvs}}

\* A loop that appends no entry for a document whose processing failed.
RECURSIVE batch_process_documents_drops_failures(_, _, _, _)
batch_process_documents_drops_failures(docs, objs, ocr, ids) ==
    IF ids = <<>>
    THEN {[documents |-> docs, ocr_results |-> ocr, results |-> <<>>]}
    ELSE UNION {{[rest EXCEPT !.results =
                     (IF first.results[1].success THEN first.results ELSE <<>>) \o @] :
                   rest \in batch_process_documents_drops_failures(
                               first.documents, objs, first.ocr_results, Tail(ids))} :
                first \in batch_round(docs, objs, ocr, Head(ids))}

\* batch_process_documents: the rounds of the loop over document_ids, one
\* after the other, each on the tables the rounds before it have left. The
\* set of the outcomes, over what the storage, the engine and the database
\* may do; the list is folded over its halves, which keeps the recursion
\* shallow for a batch of BatchLimit documents.
RECURSIVE batch_process_documents(_, _, _, _)
batch_process_documents(docs, objs, ocr, ids) ==
    IF ids = <<>>
    THEN {[documents |-> docs, ocr_results |-> ocr, results |-> <<>>]}
    ELSE IF Len(ids) = 1
    THEN batch_round(docs, objs, ocr, ids[1])
    ELSE LET half == Len(ids) \div 2 IN
         UNION {{[rest EXCEPT !.results = first.results \o @] :
                   rest \in batch_process_documents(
                               first.documents, objs, first.ocr_results,
                               SubSeq(ids, half + 1, Len(ids)))} :
                first \in batch_process_documents(docs, objs, ocr,
                                                  SubSeq(ids, 1, half))}

Successful(results) == Cardinality({i \in 1..Len(results) : results[i].success})

\* OCRService.batch_process_documents(document_ids), called with any list of
\* ids: ids of no document and repeated ids included.
BatchProcessDocuments ==
    /\ call = NoCall
    /\ \E document_ids \in SeqsUpTo(1..(MaxBatchDocs + 1), MaxBatchLen) :
       \E r \in batch_process_documents(documents, objects, ocr_results,
                                        document_ids) :
          /\ documents' = r.documents
          /\ ocr_results' = r.ocr_results
          /\ call' = [op |-> "batch_process_documents",
                      document_ids |-> document_ids,
                      documents_before |-> documents, results |-> r.results]
    /\ UNCHANGED <<ensembleVars, readerVars, monitorVars, request, objects, uploads,
                   predictions, metricVars, dagVars>>

\* The loop of run_predictions: an exception of predict_from_document ends it
\* (raised), with the rows written so far. model_loaded is the one
\* InferenceService the task has built.
PredLoopEnvs(model_loaded) == {e \in PredEnvs : e.model_loaded = model_loaded}

RECURSIVE predict_loop(_, _, _, _, _, _)
predict_loop(docs, objs, ocr, preds, ids, model_loaded) ==
    IF ids = <<>>
    THEN {[documents |-> docs, ocr_results |-> ocr, predictions |-> preds,
           successful |-> 0, raised |-> FALSE]}
    ELSE LET firsts == {predict_from_document(docs, objs, ocr, preds, Head(ids), env) :
                          env \in PredLoopEnvs(model_loaded)}
         IN UNION {IF f.raised
                   THEN {[documents |-> f.documents, ocr_results |-> f.ocr_results,
                          predictions |-> f.predictions, successful |-> 0,
                          raised |-> TRUE]}
                   ELSE {[rest EXCEPT !.successful =
                             @ + IF f.result.success THEN 1 ELSE 0] :
                           rest \in predict_loop(f.documents, objs, f.ocr_results,
                                                 f.predictions, Tail(ids),
                                                 model_loaded)} :
                   f \in firsts}

\* check_training_needed, given the row the query returned first.
LatestModels(rows) == {r \in rows : \A q \in rows : q.trained_at <= r.trained_at}

\* timedelta.days: the whole days of the difference.
DaysSince(trained_at, t) == (t - trained_at) \div TicksPerDay

needs_retraining(last_model, t) ==
    \/ DaysSince(last_model.trained_at, t) > RetrainAfterDays
    \/ last_model.accuracy < AccuracyThreshold

TaskCheckNewDocuments ==
    /\ Runnable("check_new_documents")
    /\ \/ /\ TaskRaises("check_new_documents")
          /\ UNCHANGED <<xcom, call>>
       \/ LET new_docs == Cardinality(WithStatus(documents, "uploaded")) IN
          /\ TaskSucceeds("check_new_documents")
          /\ xcom' = [xcom EXCEPT !.new_documents_count = new_docs]
          /\ call' = [op |-> "check_new_documents", returned |-> new_docs > 0]
    /\ UNCHANGED <<ensembleVars, readerVars, monitorVars, request, tableVars, metricVars>>

TaskProcessOcrBatch ==
    /\ Runnable("process_ocr_batch")
    /\ \/ /\ TaskRaises("process_ocr_batch")
          /\ UNCHANGED <<documents, ocr_results, xcom, call>>
       \/ \E document_ids \in SelectBatches(documents, "uploaded") :
          \E r \in batch_process_documents(documents, objects, ocr_results,
                                           document_ids) :
             /\ TaskSucceeds("process_ocr_batch")
             /\ documents' = r.documents
             /\ ocr_results' = r.ocr_results
             /\ xcom' = [xcom EXCEPT !.ocr_processed = Successful(r.results)]
             /\ call' = [op |-> "process_ocr_batch", document_ids |-> document_ids,
                         documents_before |-> documents,
                         results |-> r.results, returned |-> Successful(r.results)]
    /\ UNCHANGED <<ensembleVars, readerVars, monitorVars, request, objects, uploads, predictions, metricVars>>

TaskCheckTrainingNeeded ==
    /\ Runnable("check_training_needed")
    /\ \/ /\ TaskRaises("check_training_needed")
          /\ UNCHANGED <<xcom, call>>
       \/ /\ model_metrics = {}
          /\ TaskSucceeds("check_training_needed")
          /\ xcom' = [xcom EXCEPT !.check_training_return = "True"]
          /\ call' = [op |-> "check_training_needed", found |-> FALSE,
                      returned |-> TRUE]
       \/ \E last_model \in LatestModels(model_metrics) :
          LET needed == needs_retraining(last_model, now) IN
             /\ TaskSucceeds("check_training_needed")
             /\ xcom' = [xcom EXCEPT !.check_training_return = BoolStr(needed),
                                     !.needs_retraining = BoolStr(needed)]
             /\ call' = [op |-> "check_training_needed", found |-> TRUE,
                         last_model |-> last_model, returned |-> needed]
    /\ UNCHANGED <<ensembleVars, readerVars, monitorVars, request, tableVars, metricVars>>

TrainedAccuracies == {80, 90}

\* train_model: load_training_data returns the OCR rows with a text and a
\* confidence of at least 0.6, most of them of documents outside this model,
\* so their number is a choice; _save_metrics adds the row or logs the
\* exception.
TaskTrainModel ==
    /\ Runnable("train_model")
    /\ \/ /\ TaskRaises("train_model")
          /\ UNCHANGED <<model_metrics, xcom, call>>
       \/ /\ TaskSucceeds("train_model")
          /\ call' = [op |-> "train_model", samples |-> MinTrainingSamples - 1,
                      returned |-> FALSE]
          /\ UNCHANGED <<model_metrics, xcom>>
       \/ \E accuracy \in TrainedAccuracies, save_ok \in BOOLEAN :
             /\ TaskSucceeds("train_model")
             /\ model_metrics' =
                   IF save_ok
                   THEN model_metrics \cup {[trained_at |-> now, accuracy |-> accuracy]}
                   ELSE model_metrics
             /\ xcom' = [xcom EXCEPT !.model_accuracy = accuracy]
             /\ call' = [op |-> "train_model", samples |-> MinTrainingSamples,
                         returned |-> TRUE]
    /\ UNCHANGED <<ensembleVars, readerVars, monitorVars, request, tableVars, now>>

\* deploy_model: formatting the pulled model_accuracy raises TypeError when
\* train_model pushed none; else it returns whether the artifacts loaded.
TaskDeployModel ==
    /\ Runnable("deploy_model")
    /\ \/ /\ TaskRaises("deploy_model")
          /\ UNCHANGED call
       \/ /\ xcom.model_accuracy # -1
          /\ TaskSucceeds("deploy_model")
          /\ \E loaded \in BOOLEAN :
                call' = [op |-> "deploy_model", returned |-> loaded]
    /\ UNCHANGED <<ensembleVars, readerVars, monitorVars, request, tableVars, metricVars, xcom>>

TaskRunPredictions ==
    /\ Runnable("run_predictions")
    /\ \/ /\ TaskRaises("run_predictions")
          /\ UNCHANGED <<documents, ocr_results, predictions, xcom, call>>
       \/ \E document_ids \in SelectBatches(documents, "ocr_completed"),
             model_loaded \in BOOLEAN :
          \E r \in predict_loop(documents, objects, ocr_results, predictions,
                                document_ids, model_loaded) :
             /\ documents' = r.documents
             /\ ocr_results' = r.ocr_results
             /\ predictions' = r.predictions
             /\ IF r.raised
                THEN TaskRaises("run_predictions") /\ UNCHANGED <<xcom, call>>
                ELSE /\ TaskSucceeds("run_predictions")
                     /\ xcom' = [xcom EXCEPT !.predictions_made = r.successful]
                     /\ call' = [op |-> "run_predictions",
                                 document_ids |-> document_ids,
                                 rows_before |-> predictions,
                                 returned |-> r.successful]
    /\ UNCHANGED <<ensembleVars, readerVars, monitorVars, request, objects, uploads, metricVars>>

\* collect_metrics and cleanup_old_data read and delete rows of tables that
\* are no part of this model.
TaskCollectMetrics ==
    /\ Runnable("collect_metrics")
    /\ \/ /\ TaskRaises("collect_metrics")
          /\ UNCHANGED call
       \/ /\ TaskSucceeds("collect_metrics")
          /\ call' = [op |-> "collect_metrics", returned |-> TRUE]
    /\ UNCHANGED <<ensembleVars, readerVars, monitorVars, request, tableVars, metricVars, xcom>>

TaskCleanupOldData ==
    /\ Runnable("cleanup_old_data")
    /\ \/ /\ TaskRaises("cleanup_old_data")
          /\ UNCHANGED call
       \/ /\ TaskSucceeds("cleanup_old_data")
          /\ call' = [op |-> "cleanup_old_data", returned |-> TRUE]
    /\ UNCHANGED <<ensembleVars, readerVars, monitorVars, request, tableVars, metricVars, xcom>>

\* The scheduler marks a task below a failed one.
UpstreamFailed ==
    /\ \E t \in TaskIds :
          /\ task_state[t] = "none"
          /\ \E u \in Upstream(t) : task_state[u] \in {"failed", "upstream_failed"}
          /\ task_state' = [task_state EXCEPT ![t] = "upstream_failed"]
    /\ UNCHANGED <<ensembleVars, readerVars, monitorVars, request, tableVars, metricVars, try_number, xcom,
                   call>>

RunFinished ==
    \A t \in TaskIds : task_state[t] \in {"success", "failed", "upstream_failed"}

\* The next DAG run: fresh task instances, fresh XComs.
NewRun ==
    /\ RunFinished
    /\ task_state' = [t \in TaskIds |-> "none"]
    /\ try_number' = 0
    /\ xcom' = NoXCom
    /\ call' = [op |-> "new_run"]
    /\ UNCHANGED <<ensembleVars, readerVars, monitorVars, request, tableVars, metricVars>>

NextDag ==
    \/ TaskCheckNewDocuments
    \/ TaskProcessOcrBatch
    \/ TaskCheckTrainingNeeded
    \/ TaskTrainModel
    \/ TaskDeployModel
    \/ TaskRunPredictions
    \/ TaskCollectMetrics
    \/ TaskCleanupOldData
    \/ UpstreamFailed
    \/ NewRun

(***************************************************************************)
(* Initial values of the parts a specification leaves alone.               *)
(***************************************************************************)
Today == MaxDays * TicksPerDay

NoRequest == [filename |-> <<>>, file_size |-> 0]

IdleEnsemble == engines = <<>> /\ voting_strategy = "confidence"
IdleRequest == request = NoRequest
IdleTables ==
    /\ documents = <<>>
    /\ objects = <<>>
    /\ uploads = 0
    /\ ocr_results = [d \in DocIds |-> "none"]
    /\ predictions = [d \in DocIds |-> 0]
IdleMetrics == model_metrics = {} /\ now = Today
IdleDag ==
    /\ task_state = [t \in TaskIds |-> "none"]
    /\ try_number = 0
    /\ xcom = NoXCom
IdleReader == reader = NoReader /\ initialized_languages = {}
IdleMonitor == performance_metrics = <<>>

(***************************************************************************)
(* Specifications of the pure functions: Init draws the inputs.            *)
(***************************************************************************)
InitEnsemble ==
    /\ engines \in SeqsUpTo(EngineOutcomes, MaxEngines)
    /\ voting_strategy \in VotingStrategies
    /\ IdleRequest /\ IdleTables /\ IdleMetrics /\ IdleDag
    /\ IdleReader /\ IdleMonitor
    /\ call = NoCall

SpecEnsemble == InitEnsemble /\ [][ExtractText]_vars

InitValidate ==
    /\ request \in [filename : FileNames, file_size : FileSizes]
    /\ IdleEnsemble /\ IdleTables /\ IdleMetrics /\ IdleDag
    /\ IdleReader /\ IdleMonitor
    /\ call = NoCall

SpecValidate == InitValidate /\ [][ValidateFile]_vars

InitIngest ==
    /\ IdleEnsemble /\ IdleRequest /\ IdleTables /\ IdleMetrics /\ IdleDag
    /\ IdleReader /\ IdleMonitor
    /\ call = NoCall

SpecIngest == InitIngest /\ [][IngestDocument]_vars

\* The tables a service method may find. A document leaves 'uploaded', gets an
\* OCR row or a prediction only after its image was loaded once.
DocumentStates ==
    {s \in [status : {"uploaded", "ocr_completed", "ocr_failed"},
            object : {"loadable", "unreadable", "missing"},
            ocr : {"none", "", "text"}, predictions : 0..MaxPredictions] :
       s.object # "loadable" =>
          s.status = "uploaded" /\ s.ocr = "none" /\ s.predictions = 0}

TablesOf(states) ==
    LET n == Len(states) IN
    [documents |-> [i \in 1..n |-> [status |-> states[i].status, storage_path |-> i]],
     objects |-> [i \in {k \in 1..n : states[k].object # "missing"} |->
                    [loadable |-> states[i].object = "loadable"]],
     ocr_results |-> [d \in DocIds |-> IF d <= n THEN states[d].ocr ELSE "none"],
     predictions |-> [d \in DocIds |-> IF d <= n THEN states[d].predictions ELSE 0]]

InitOcr ==
    /\ \E states \in SeqsUpTo(DocumentStates, MaxServiceDocs) :
         LET t == TablesOf(states) IN
         /\ documents = t.documents
         /\ objects = t.objects
         /\ uploads = Len(states)
         /\ ocr_results = t.ocr_results
         /\ predictions = t.predictions
    /\ IdleEnsemble /\ IdleRequest /\ IdleMetrics /\ IdleDag
    /\ IdleReader /\ IdleMonitor
    /\ call = NoCall

SpecOcr == InitOcr /\ [][ProcessDocument \/ PredictFromDocument]_vars

\* The model_metrics tables check_training_needed may find: rows trained
\* between MaxDays days ago and now.
Accuracies == {84, 85, 86}
ModelRows == [trained_at : 0..Today, accuracy : Accuracies]
RECURSIVE SetsUpTo(_, _)
SetsUpTo(S, n) ==
    IF n = 0 THEN {{}}
    ELSE LET smaller == SetsUpTo(S, n - 1) IN
         smaller \cup {T \cup {x} : T \in smaller, x \in S}

ModelTables == SetsUpTo(ModelRows, MaxModels)

\* A DAG run that has come to check_training_needed.
InitTraining ==
    /\ model_metrics \in ModelTables
    /\ now = Today
    /\ task_state = [t \in TaskIds |->
                       IF t \in {"check_new_documents", "process_ocr_batch"}
                       THEN "success" ELSE "none"]
    /\ try_number = 0
    /\ xcom = [NoXCom EXCEPT !.new_documents_count = 0, !.ocr_processed = 0]
    /\ IdleEnsemble /\ IdleRequest /\ IdleTables
    /\ IdleReader /\ IdleMonitor
    /\ call = NoCall

SpecTraining == InitTraining /\ [][TaskCheckTrainingNeeded]_vars

\* Documents as ingest_document leaves them: 'uploaded', with an object PIL
\* can open, one it cannot open (a PDF, a damaged image), or with no object
\* (the save raised after its commit and the object was deleted again).
FreshDocuments == {s \in DocumentStates : s.status = "uploaded" /\ s.ocr = "none"
                                          /\ s.predictions = 0}

\* No model yet, a fresh accurate one, a stale one, a fresh inaccurate one.
PipelineModelTables ==
    {{}, {[trained_at |-> Today - TicksPerDay, accuracy |-> 90]},
     {[trained_at |-> 0, accuracy |-> 90]},
     {[trained_at |-> Today - TicksPerDay, accuracy |-> 80]}}

InitDag ==
    /\ model_metrics \in PipelineModelTables
    /\ now = Today
    /\ IdleEnsemble /\ IdleRequest /\ IdleTables /\ IdleDag
    /\ IdleReader /\ IdleMonitor
    /\ call = NoCall

SpecDag == InitDag /\ [][NextDag]_vars

\* The pipeline over a documents table that ingest_document has filled.
InitLive ==
    /\ \E states \in SeqsUpTo(FreshDocuments, MaxPipelineDocs) :
         LET t == TablesOf(states) IN
         /\ documents = t.documents
         /\ objects = t.objects
         /\ uploads = Len(states)
         /\ ocr_results = t.ocr_results
         /\ predictions = t.predictions
    /\ model_metrics \in PipelineModelTables
    /\ now = Today
    /\ IdleEnsemble /\ IdleRequest /\ IdleDag
    /\ IdleReader /\ IdleMonitor
    /\ call = NoCall

\* Each run's tasks complete and runs keep being scheduled: the scheduler
\* takes a step whenever one is possible; check_new_documents, tried again
\* and again, succeeds; and process_ocr_batch, tried again and again, has a try
\* in which storage, engine and database all work, so that every selected
\* document whose image can be loaded gets its status.
CheckNewDocumentsSucceeds ==
    TaskCheckNewDocuments /\ task_state'["check_new_documents"] = "success"

OcrBatchCompletes ==
    /\ TaskProcessOcrBatch
    /\ task_state'["process_ocr_batch"] = "success"
    /\ \A d \in WithStatus(documents, "uploaded") :
          load_image_from_storage(objects, documents[d].storage_path, TRUE)
             => documents'[d].status # "uploaded"

SpecLive ==
    /\ InitLive /\ [][NextDag]_vars
    /\ WF_vars(NextDag)
    /\ SF_vars(CheckNewDocumentsSucceeds)
    /\ SF_vars(OcrBatchCompletes)

\* The tables a batch may find: fresh documents and documents whose OCR is
\* completed, or one more than BatchLimit documents that PIL cannot open (PDFs).
BatchDocuments ==
    FreshDocuments \cup {[status |-> "ocr_completed", object |-> "loadable",
                          ocr |-> "text", predictions |-> 0]}

LargeTable == [i \in 1..(BatchLimit + 1) |-> [status |-> "uploaded", storage_path |-> i]]

\* A DAG run that has come to process_ocr_batch.
InitBatch ==
    /\ \/ \E states \in SeqsUpTo(BatchDocuments, MaxBatchDocs) :
            LET t == TablesOf(states) IN
            /\ documents = t.documents
            /\ objects = t.objects
            /\ uploads = Len(states)
            /\ ocr_results = t.ocr_results
            /\ predictions = t.predictions
       \/ /\ documents = LargeTable
          /\ objects = [i \in 1..Len(LargeTable) |-> [loadable |-> FALSE]]
          /\ uploads = Len(LargeTable)
          /\ ocr_results = [d \in DocIds |-> "none"]
          /\ predictions = [d \in DocIds |-> 0]
    /\ task_state = [t \in TaskIds |->
                       IF t = "check_new_documents" THEN "success" ELSE "none"]
    /\ try_number = 0
    /\ xcom = [NoXCom EXCEPT !.new_documents_count =
                  Cardinality(WithStatus(documents, "uploaded"))]
    /\ IdleEnsemble /\ IdleRequest /\ IdleMetrics
    /\ IdleReader /\ IdleMonitor
    /\ call = NoCall

SpecBatch == InitBatch /\ [][TaskProcessOcrBatch]_vars

\* A caller of batch_process_documents.
InitBatchCall ==
    /\ \E states \in SeqsUpTo(BatchDocuments, MaxBatchDocs) :
         LET t == TablesOf(states) IN
         /\ documents = t.documents
         /\ objects = t.objects
         /\ uploads = Len(states)
         /\ ocr_results = t.ocr_results
         /\ predictions = t.predictions
    /\ IdleEnsemble /\ IdleRequest /\ IdleMetrics /\ IdleDag
    /\ IdleReader /\ IdleMonitor
    /\ call = NoCall

SpecBatchCall == InitBatchCall /\ [][BatchProcessDocuments]_vars

\* A request to an endpoint, over the tables the services have filled.
InitApi == InitOcr

SpecApi == InitApi /\ [][UploadDocument \/ PredictDocument]_vars

\* Calls of a function wrapped by measure_and_log.
InitMonitor ==
    /\ IdleEnsemble /\ IdleRequest /\ IdleTables /\ IdleMetrics /\ IdleDag
    /\ IdleReader /\ IdleMonitor
    /\ call = NoCall

SpecMonitor == InitMonitor /\ [][MeasureAndLog]_vars

\* One EasyOCREngine, asked for readers again and again.
InitReader ==
    /\ IdleEnsemble /\ IdleRequest /\ IdleTables /\ IdleMetrics /\ IdleDag
    /\ IdleReader /\ IdleMonitor
    /\ call = NoCall

SpecReader == InitReader /\ [][GetReader \/ EasyExtractText]_vars

(***************************************************************************)
(* The claims.                                                             *)
(***************************************************************************)
OkEngines == {i \in 1..Len(engines) : engines[i].kind = "ok"}

\* C1: with voting_strategy 'confidence', extract_text returns the text and
\* the confidence of one engine that did not raise and whose confidence is
\* the maximum over the engines that did not raise; ('', 0.0) when no engine
\* produced a result.
C1_EnsembleMaxConfidence ==
    (call.op = "extract_text" /\ voting_strategy = "confidence") =>
        IF OkEngines = {}
        THEN call.result.text = "" /\ call.result.confidence = 0
        ELSE \E i \in OkEngines :
               /\ call.result.text = engines[i].text
               /\ call.result.confidence = engines[i].confidence
               /\ \A j \in OkEngines : engines[j].confidence <= engines[i].confidence

\* C1, reached: the first engine raises, the second returns a result and the
\* third returns a more confident one, which is the one returned.
C1_Witness ==
    /\ call.op = "extract_text" /\ voting_strategy = "confidence"
    /\ Len(engines) = 3
    /\ engines[1].kind = "raise" /\ engines[2].kind = "ok" /\ engines[3].kind = "ok"
    /\ engines[2].confidence < engines[3].confidence
    /\ engines[2].text # engines[3].text
    /\ call.result.text = engines[3].text

\* C2: check_training_needed returns True exactly when no ModelMetrics row
\* exists, or more than 7 days have elapsed since the trained_at of the most
\* recently trained model, or that model's accuracy is below 0.85.
C2_CheckTrainingNeeded ==
    call.op = "check_training_needed" =>
        IF ~call.found
        THEN model_metrics = {} /\ call.returned
        ELSE /\ call.last_model \in LatestModels(model_metrics)
             /\ call.returned <=>
                   \/ now - call.last_model.trained_at > RetrainAfterDays * TicksPerDay
                   \/ call.last_model.accuracy < AccuracyThreshold

\* A task instance that has had a try in this run.
Started(t) == task_state[t] \in {"up_for_retry", "success", "failed"}

\* C3: in a DAG run train_model and deploy_model are executed only if
\* check_training_needed returned True; when it returned False,
\* run_predictions is the task that follows check_training_needed.
C3_BranchesOnTrainingCheck ==
    /\ \A t \in {"train_model", "deploy_model"} :
          Started(t) => xcom.check_training_return = "True"
    /\ (task_state["check_training_needed"] = "success"
        /\ xcom.check_training_return = "False") =>
          Started("run_predictions") \/ Runnable("run_predictions")

\* The order C4 names.
DeclaredOrder ==
    {<<"check_new_documents", "process_ocr_batch">>,
     <<"process_ocr_batch", "check_training_needed">>,
     <<"train_model", "deploy_model">>,
     <<"check_training_needed", "run_predictions">>,
     <<"run_predictions", "collect_metrics">>,
     <<"collect_metrics", "cleanup_old_data">>}

Successors(S) == {e[2] : e \in {x \in Dependencies : x[1] \in S}}

\* The tasks n or fewer edges below the tasks of S.
RECURSIVE Descendants(_, _)
Descendants(S, n) ==
    IF n = 0 THEN S ELSE Descendants(S \cup Successors(S), n - 1)

\* C4: in every DAG run no task has a try before the task the declared order
\* puts before it has succeeded, and the task graph has no cycle.
C4_TasksRespectOrder ==
    /\ \A e \in DeclaredOrder : Started(e[2]) => task_state[e[1]] = "success"
    /\ \A t \in TaskIds :
          t \notin Descendants(Successors({t}), Cardinality(TaskIds))

\* C4, reached: a run in which all eight tasks have succeeded.
C4_Witness ==
    /\ \A t \in TaskIds : task_state[t] = "success"
    /\ call.op = "cleanup_old_data"

\* C5: under repeated pipeline runs every document with status 'uploaded'
\* eventually leaves that status.
C5_UploadedEventuallyLeaves ==
    \A d \in 1..MaxPipelineDocs :
        (d <= Len(documents) /\ documents[d].status = "uploaded")
           ~> (d <= Len(documents) /\ documents[d].status # "uploaded")

AllowedSuffix(filename) ==
    \E e \in {"jpg", "jpeg", "png", "tiff", "tif", "pdf", "bmp"} :
        LowerSeq(PathSuffix(filename)) = <<".", e>>

\* C6: validate_file returns (True, None) exactly when the lower-cased suffix
\* is an allowed one and the size is at most 50 MiB; otherwise (False, message)
\* with a message, the extension being checked first.
C6_ValidateFile ==
    call.op = "validate_file" =>
        LET ext_ok == AllowedSuffix(request.filename)
            size_ok == request.file_size <= 52428800
        IN /\ call.result.valid <=> (ext_ok /\ size_ok)
           /\ call.result.valid => call.result.error = "None"
           /\ ~call.result.valid => call.result.error \in {"extension", "size"}
           /\ call.result.error = "extension" <=> ~ext_ok

\* C6, reached: an upper-case suffix and a file of exactly 50 MiB, accepted.
C6_Witness ==
    /\ call.op = "validate_file"
    /\ request.filename = <<"x", ".", "PDF">>
    /\ request.file_size = 52428800
    /\ call.result.valid

\* C7: an ingest_document of a file that fails validation returns success
\* False with the validation error, uploads nothing and creates no row.
C7_InvalidIngestChangesNothing ==
    [][(call'.op = "ingest_document" /\ ~call'.validation.valid) =>
          /\ ~call'.result.success
          /\ call'.result.error = call'.validation.error
          /\ call'.result.error \in {"extension", "size"}
          /\ documents' = documents
          /\ objects' = objects]_vars

\* C7, reached: a file that is too big is refused while the table holds a row.
C7_Witness ==
    /\ call.op = "ingest_document"
    /\ ~call.validation.valid /\ call.result.error = "size"
    /\ Len(documents) > 0 /\ DOMAIN objects # {}

RowsOfIngest == {i \in 1..Len(documents) : documents[i].storage_path = call.storage_path}
SaveRaised == call.uploaded /\ call.saved \in {"commit_raises", "refresh_raises"}
UploadFailed == call.validation.valid /\ ~call.uploaded

\* C8: after a failed save neither the object nor a row of this
\* ingest exists; after a failed upload no row was created.
C8_Original ==
    call.op = "ingest_document" =>
        /\ SaveRaised =>
              /\ ~call.result.success
              /\ call.storage_path \notin DOMAIN objects
              /\ RowsOfIngest = {}
        /\ UploadFailed =>
              ~call.result.success /\ Len(documents) = call.rows_before

\* C9: process_document on an existing document with a loadable image sets
\* the status to 'ocr_completed' exactly when it returns success True, to
\* 'ocr_failed' exactly when the OCR step raised (success False), and never
\* returns success True with the status left at 'uploaded' or 'ocr_failed'.
C9_StatusFollowsResult ==
    (call.op = "process_document" /\ call.existed /\ call.loaded) =>
        LET status == documents[call.document_id].status IN
        /\ call.status_set = "ocr_completed" <=> call.result.success
        /\ call.status_set = "ocr_failed" <=> call.engine_raised
        /\ call.engine_raised => ~call.result.success
        /\ ~(call.result.success /\ status \in {"uploaded", "ocr_failed"})

C11_MeasureAndLog ==
    call.op = "measure_and_log" =>
        LET expected ==
               IF call.func.kind = "raise" THEN 500
               ELSE IF call.func.kind = "dict"
                       /\ call.func.success \in {"False", "None", "0"}
               THEN 400 ELSE 200
        IN /\ call.attempts = <<expected>>
           /\ call.raised <=> call.func.kind = "raise"
           /\ call.result = call.func
           /\ performance_metrics =
                 IF call.save_ok THEN Append(call.rows_before, expected)
                 ELSE call.rows_before

\* C11, reached: the wrapped function returned a failure dict, the save of
\* the metric failed, and the dict came back unchanged.
C11_Witness ==
    /\ call.op = "measure_and_log"
    /\ call.func = [kind |-> "dict", success |-> "False"]
    /\ ~call.save_ok /\ ~call.raised
    /\ call.attempts = <<400>>
    /\ Len(performance_metrics) > 0

\* C12: for POST /upload and POST /predict/document/{document_id} a service
\* result with success False gives an error response, 400 for the upload and
\* 404 for the prediction, never 200 or 500; a 500 is given only when the
\* service call raised.
C12_EndpointStatus ==
    call.op \in {"POST /upload", "POST /predict/document"} =>
        /\ (~call.service_raised /\ ~call.result.success) =>
              call.status_code = IF call.op = "POST /upload" THEN 400 ELSE 404
        /\ call.status_code = 500 => call.service_raised
        /\ call.status_code = 200 => (~call.service_raised /\ call.result.success)

\* C12, reached: the prediction of a document that does not exist, a 404.
C12_Witness ==
    /\ call.op = "POST /predict/document"
    /\ ~HasDocument(documents, call.document_id)
    /\ ~call.service_raised /\ ~call.result.success
    /\ call.status_code = 404

\* C13: run_predictions processes only documents whose OCR is completed and
\* that have no prediction yet, so that over any number of DAG runs it writes
\* at most one Prediction row per document.
C13_AtMostOnePrediction ==
    /\ \A d \in DocIds : predictions[d] <= 1
    /\ call.op = "run_predictions" =>
          \A i \in 1..Len(call.document_ids) :
             call.rows_before[call.document_ids[i]] = 0

NoDuplicates(ids) == \A i, j \in 1..Len(ids) : ids[i] = ids[j] => i = j

\* C14: one execution of process_ocr_batch hands at most 100 documents to
\* OCR, each with status 'uploaded' when it was selected and none of them
\* twice; the value it returns and pushes as 'ocr_processed' is the number of
\* results with success True.
C14_ProcessOcrBatch ==
    call.op = "process_ocr_batch" =>
        /\ Len(call.document_ids) <= 100
        /\ \A i \in 1..Len(call.document_ids) :
              /\ HasDocument(call.documents_before, call.document_ids[i])
              /\ call.documents_before[call.document_ids[i]].status = "uploaded"
        /\ NoDuplicates(call.document_ids)
        /\ call.returned =
              Cardinality({i \in 1..Len(call.results) : call.results[i].success})
        /\ xcom.ocr_processed = call.returned

\* C14, reached: 101 documents are 'uploaded' and the batch holds 100 of them.
C14_Witness ==
    /\ call.op = "process_ocr_batch"
    /\ Cardinality(WithStatus(call.documents_before, "uploaded")) = 101
    /\ Len(call.document_ids) = 100

\* C15: batch_process_documents returns exactly one result per input
\* document id, in input order; a document that cannot be processed (no such
\* row, no loadable image, an exception) gets a success False entry, and the
\* documents after it are processed all the same.
C15_OneResultPerDocument ==
    call.op = "batch_process_documents" =>
        /\ Len(call.results) = Len(call.document_ids)
        /\ \A i \in 1..Len(call.results) :
              LET d == call.document_ids[i] IN
              /\ call.results[i].document_id = d
              /\ call.results[i].success =>
                    /\ HasDocument(call.documents_before, d)
                    /\ load_image_from_storage(
                          objects, call.documents_before[d].storage_path, TRUE)
        /\ \A d \in 1..Len(documents) :
              documents[d].status # call.documents_before[d].status =>
                 \E i \in 1..Len(call.document_ids) : call.document_ids[i] = d

\* C15, reached: the first document of the batch fails, the second one is
\* processed and its OCR is completed.
C15_Witness ==
    /\ call.op = "batch_process_documents"
    /\ Len(call.document_ids) = 2
    /\ call.document_ids[1] # call.document_ids[2]
    /\ ~call.results[1].success /\ call.results[2].success
    /\ call.documents_before[call.document_ids[2]].status = "uploaded"
    /\ documents[call.document_ids[2]].status = "ocr_completed"

\* C16: _get_reader(language) returns a reader that was created for the
\* languages asked for, after any sequence of calls with different
\* languages.
C16_ReaderMatchesLanguage ==
    (call.op = "_get_reader" /\ ~call.raised) =>
        call.returned = LangKey(call.language)

\* The engines whose confidence is the maximum over the engines that did
\* not raise.
MostConfident ==
    {i \in OkEngines : \A j \in OkEngines : engines[j].confidence <= engines[i].confidence}

====
